---- MODULE Spec2Model ----
(***************************************************************************)
(* The payment engine of the weblate.org website: the Payment rows of the  *)
(* payments database, the payment backends (wlhosted/payments/backends.py) *)
(* and the web requests that drive them (weblate_web/views.py).            *)
(*                                                                         *)
(* A web request runs inside transaction.atomic: what it saves becomes     *)
(* visible to the other requests when it commits, and is dropped when an   *)
(* exception leaves the block.  Backend.__init__ takes the row lock        *)
(* (select_for_update) and re-reads the row; the lock is held until the    *)
(* transaction ends.  Invoices (files and git commits in the fakturace     *)
(* store) and e-mails are outside the database: a rollback does not undo   *)
(* them.                                                                   *)
(***************************************************************************)
EXTENDS Integers, Sequences, FiniteSets, TLC

VARIABLES settings, customer, db, req, store, outbox, posts, returned, started

vars == <<settings, customer, db, req, store, outbox, posts, returned, started>>

\* Bounds of the model.
MaxPayments == 2
MaxRequests == 2
MaxOps == 3
MaxRenewals == 6
MaxCreated == 2
MaxChain == 5

\* Payment.state values (Payment.NEW .. Payment.PROCESSED).
Payment_NEW == 1
Payment_PENDING == 2
Payment_REJECTED == 3
Payment_ACCEPTED == 4
Payment_PROCESSED == 5

States == {Payment_NEW, Payment_PENDING, Payment_REJECTED, Payment_ACCEPTED, Payment_PROCESSED}

\* A key that is not in a dict, an empty CharField, a null foreign key.
NoKey == ""
NoPayment == 0
NoInvoice == 0

\* RECURRENCE_CHOICES: the period codes of Payment.recurring.
RECURRENCE_CHOICES == {"y", "b", "m", ""}

\* The registered backend classes: name, debug, recurring, and whether
\* perform returns a redirect (None otherwise).
BackendNames == {"pay", "reject", "pending", "thepay-card", "thepay-bitcoin"}

BACKENDS(name) ==
    CASE name = "pay" ->
           [name |-> "pay", debug |-> TRUE, recurring |-> TRUE, thepay |-> FALSE]
      [] name = "reject" ->
           [name |-> "reject", debug |-> TRUE, recurring |-> FALSE, thepay |-> FALSE]
      [] name = "pending" ->
           [name |-> "pending", debug |-> TRUE, recurring |-> FALSE, thepay |-> FALSE]
      [] name = "thepay-card" ->
           [name |-> "thepay-card", debug |-> FALSE, recurring |-> TRUE, thepay |-> TRUE]
      [] name = "thepay-bitcoin" ->
           [name |-> "thepay-bitcoin", debug |-> FALSE, recurring |-> FALSE, thepay |-> TRUE]

\* Mutant of get_backend: a debug backend is handed out whatever
\* PAYMENT_DEBUG is.
get_backend_debug_ignored(name, conf) ==
    name \notin BackendNames

\* get_backend(name) raises KeyError for an unknown name and for a debug
\* backend when PAYMENT_DEBUG is off.
get_backend_KeyError(name, conf) ==
    \/ name \notin BackendNames
    \/ BACKENDS(name).debug /\ ~conf.PAYMENT_DEBUG

\* Mutant of list_backends: the debug backends are always listed.
list_backends_all(conf) == BackendNames

\* list_backends(): the names the method form offers.
list_backends(conf) ==
    {n \in BackendNames : ~BACKENDS(n).debug \/ conf.PAYMENT_DEBUG}

\* Payment.details, a dict: the keys the engine uses, and whether the
\* gateway's return data was stored in it.
NoDetails == [backend |-> NoKey, reject_reason |-> NoKey, gateway |-> FALSE]

\* Payment.extra, a dict: a key that is not in it maps to NoKey.
ExtraKeys == {"reward", "period"}
ExtraValues == {"1", "2"}
Dicts == [ExtraKeys -> ExtraValues \cup {NoKey}]
NoExtra == [k \in ExtraKeys |-> NoKey]

\* The last call of repeat_payment: the payment it was called on, the
\* overrides passed and the value returned or exception raised.
NotCalled == [pk |-> NoPayment, kwargs |-> NoExtra, value |-> "none"]

\* dict.update: the keys of other override those of dict.
dict_update(dict, other) ==
    [k \in ExtraKeys |-> IF other[k] # NoKey THEN other[k] ELSE dict[k]]

\* A Payment row.  created is the row's position in db.
NewPayment(recurring, backend, repeat) ==
    [state |-> Payment_NEW, recurring |-> recurring, backend |-> backend,
     details |-> NoDetails, repeat |-> repeat, invoice |-> NoInvoice,
     amount |-> 100, description |-> "Test payment", amount_fixed |-> FALSE,
     customer |-> 1, extra |-> NoExtra]

\* No row: the value of a request's object, payment or tx when it has none.
NullRow ==
    [state |-> 0, recurring |-> "", backend |-> NoKey,
     details |-> NoDetails, repeat |-> NoPayment, invoice |-> NoInvoice,
     amount |-> 0, description |-> "", amount_fixed |-> FALSE,
     customer |-> 0, extra |-> NoExtra]

\* The gateway's return request (request.GET of the completion callback):
\* whether its signature checks, the merchant data (a payment pk) and the
\* payment status the gateway reports.
ThePayStatuses == {2, 3, 5}

Callbacks ==
    [signature : BOOLEAN, merchant : 1..MaxPayments, status : ThePayStatuses]

\* No request data: a request that has not been read by collect.
NoRequest == [signature |-> FALSE, merchant |-> 0, status |-> 0]

\* The return requests that make a difference to a backend: the debug
\* backends do not read the request.
CallbacksOf(name) ==
    IF name \in BackendNames /\ BACKENDS(name).thepay THEN Callbacks
    ELSE {[signature |-> TRUE, merchant |-> 1, status |-> 2]}

\* What the collaborators of one request do: invoice generation (LaTeX,
\* git) and e-mail delivery either work or raise.
Outcomes == {"ok", "fail"}

\* Mutant of perform: no backend redirects to a gateway.
perform_none(b) == "None"

\* perform: DebugPay and DebugReject return None, DebugPending and the
\* ThePay backends return a redirect to the gateway.
perform(b) ==
    IF b.name \in {"pay", "reject"} THEN "None" ELSE "redirect"

\* ThePayCard.collect: the reason recorded for a status other than 2.
reject_reason(status) ==
    CASE status = 3 -> "Payment cancelled"
      [] status = 4 -> "Error during payment"
      [] status = 6 -> "Underpaid"
      [] status = 7 -> "Waiting for additional confirmation"
      [] status = 9 -> "Deposit confirmed"
      [] OTHER -> "Unknown: status"

\* collect: the boolean it returns and the payment object it leaves.
collect(b, payment, pk, request) ==
    IF b.name = "reject"
    THEN [ok |-> FALSE,
          payment |-> [payment EXCEPT !.details.reject_reason = "Debug reject"]]
    ELSE IF ~b.thepay
    THEN [ok |-> TRUE, payment |-> payment]
    ELSE IF ~request.signature
    THEN [ok |-> FALSE, payment |-> payment]
    ELSE IF request.merchant # pk
    THEN [ok |-> FALSE, payment |-> payment]
    ELSE LET stored == [payment EXCEPT !.details =
                            [backend |-> NoKey, reject_reason |-> NoKey,
                             gateway |-> TRUE]]
         IN  IF request.status = 2
             THEN [ok |-> TRUE, payment |-> stored]
             ELSE [ok |-> FALSE,
                   payment |-> [stored EXCEPT !.details.reject_reason =
                                    reject_reason(request.status)]]

\* What a Backend method hands back to the request that called it:
\*   raised   the exception that left the method ("" when it returned),
\*   result   the value returned,
\*   payment  self.payment afterwards,
\*   tx       the row as last saved in the transaction (NullRow: no save),
\*   performs how often perform was invoked,
\*   collected what collect returned ("none" when it was not invoked),
\*   invoices the records generate_invoice added to the fakturace store,
\*   mails    the e-mails sent.
Returned(raised, result, payment, tx, performs, collected, invoices, mails) ==
    [raised |-> raised, result |-> result, payment |-> payment, tx |-> tx,
     performs |-> performs, collected |-> collected,
     invoices |-> invoices, mails |-> mails]

\* Mutants of initiate: without the check of the state, without the check
\* of repeat against the backend's recurring capability, and returning a
\* redirect before the state is updated.
initiate_any_state(b, payment, tx) ==
    IF payment.repeat # NoPayment /\ ~b.recurring
    THEN Returned("InvalidState", "none", payment, tx, 0, "none", <<>>, <<>>)
    ELSE LET result == perform(b)
             updated == [payment EXCEPT !.state = Payment_PENDING,
                                        !.details.backend = b.name]
         IN  Returned("", result, updated, updated, 1, "none", <<>>, <<>>)

initiate_any_repeat(b, payment, tx) ==
    IF payment.state # Payment_NEW
    THEN Returned("InvalidState", "none", payment, tx, 0, "none", <<>>, <<>>)
    ELSE LET result == perform(b)
             updated == [payment EXCEPT !.state = Payment_PENDING,
                                        !.details.backend = b.name]
         IN  Returned("", result, updated, updated, 1, "none", <<>>, <<>>)

initiate_redirect_first(b, payment, tx) ==
    IF payment.state # Payment_NEW
    THEN Returned("InvalidState", "none", payment, tx, 0, "none", <<>>, <<>>)
    ELSE IF payment.repeat # NoPayment /\ ~b.recurring
    THEN Returned("InvalidState", "none", payment, tx, 0, "none", <<>>, <<>>)
    ELSE LET result == perform(b)
             updated == [payment EXCEPT !.state = Payment_PENDING,
                                        !.details.backend = b.name]
         IN  IF result = "redirect"
             THEN Returned("", result, payment, tx, 1, "none", <<>>, <<>>)
             ELSE Returned("", result, updated, updated, 1, "none", <<>>, <<>>)

\* Backend.initiate.
initiate(b, payment, tx) ==
    IF payment.state # Payment_NEW
    THEN Returned("InvalidState", "none", payment, tx, 0, "none", <<>>, <<>>)
    ELSE IF payment.repeat # NoPayment /\ ~b.recurring
    THEN Returned("InvalidState", "none", payment, tx, 0, "none", <<>>, <<>>)
    ELSE LET result == perform(b)
             updated == [payment EXCEPT !.state = Payment_PENDING,
                                        !.details.backend = b.name]
         IN  Returned("", result, updated, updated, 1, "none", <<>>, <<>>)

\* Mutant of generate_invoice: PAYMENT_FAKTURACE is not looked at.
generate_invoice_always(payment, pk, conf, invoiceid, inv) ==
    IF inv = "fail"
    THEN [raised |-> "CalledProcessError", payment |-> payment,
          invoices |-> <<[payment |-> pk, invoiceid |-> invoiceid,
                          committed |-> FALSE]>>]
    ELSE [raised |-> "", payment |-> [payment EXCEPT !.invoice = invoiceid],
          invoices |-> <<[payment |-> pk, invoiceid |-> invoiceid,
                          committed |-> TRUE]>>]

\* Backend.generate_invoice: nothing when PAYMENT_FAKTURACE is None;
\* otherwise the invoice files are written and committed to git, and
\* payment.invoice is the new invoice id.  When a step raises, the files
\* written so far stay in the store, uncommitted.
generate_invoice(payment, pk, conf, invoiceid, inv) ==
    IF ~conf.PAYMENT_FAKTURACE
    THEN [raised |-> "", payment |-> payment, invoices |-> <<>>]
    ELSE IF inv = "fail"
    THEN [raised |-> "CalledProcessError", payment |-> payment,
          invoices |-> <<[payment |-> pk, invoiceid |-> invoiceid,
                          committed |-> FALSE]>>]
    ELSE [raised |-> "", payment |-> [payment EXCEPT !.invoice = invoiceid],
          invoices |-> <<[payment |-> pk, invoiceid |-> invoiceid,
                          committed |-> TRUE]>>]

\* Backend.notify_user / Backend.notify_failure: the message sent.
notify_user(payment, pk) ==
    [kind |-> "payment", payment |-> pk, invoice |-> payment.invoice,
     reason |-> NoKey]

notify_failure(payment, pk) ==
    [kind |-> "failed", payment |-> pk, invoice |-> NoInvoice,
     reason |-> IF payment.details.reject_reason = NoKey
                THEN "Uknown" ELSE payment.details.reject_reason]

\* Mutant of success: recurring is kept whatever the backend.
success_keeps_recurring(b, payment, tx, pk, conf, invoiceid, inv, mail) ==
    LET accepted == [payment EXCEPT !.state = Payment_ACCEPTED]
        invoiced == generate_invoice(accepted, pk, conf, invoiceid, inv)
    IN  IF invoiced.raised # ""
        THEN Returned(invoiced.raised, "none", invoiced.payment, tx, 0, "True",
                      invoiced.invoices, <<>>)
        ELSE IF mail = "fail"
        THEN Returned("SMTPException", "none", invoiced.payment,
                      invoiced.payment, 0, "True", invoiced.invoices, <<>>)
        ELSE Returned("", "True", invoiced.payment, invoiced.payment, 0, "True",
                      invoiced.invoices,
                      <<notify_user(invoiced.payment, pk)>>)

\* Mutant of success: a failure of generate_invoice is passed over, the
\* payment is saved and the user notified without an invoice.
success_skips_invoice(b, payment, tx, pk, conf, invoiceid, inv, mail) ==
    LET accepted == [payment EXCEPT !.state = Payment_ACCEPTED,
                        !.recurring = IF ~b.recurring THEN "" ELSE @]
        invoiced == generate_invoice(accepted, pk, conf, invoiceid, inv)
    IN  IF mail = "fail"
        THEN Returned("SMTPException", "none", invoiced.payment,
                      invoiced.payment, 0, "True", invoiced.invoices, <<>>)
        ELSE Returned("", "True", invoiced.payment, invoiced.payment, 0, "True",
                      invoiced.invoices,
                      <<notify_user(invoiced.payment, pk)>>)

\* Backend.success.
success(b, payment, tx, pk, conf, invoiceid, inv, mail) ==
    LET accepted == [payment EXCEPT !.state = Payment_ACCEPTED,
                        !.recurring = IF ~b.recurring THEN "" ELSE @]
        invoiced == generate_invoice(accepted, pk, conf, invoiceid, inv)
    IN  IF invoiced.raised # ""
        THEN Returned(invoiced.raised, "none", invoiced.payment, tx, 0, "True",
                      invoiced.invoices, <<>>)
        ELSE IF mail = "fail"
        THEN Returned("SMTPException", "none", invoiced.payment,
                      invoiced.payment, 0, "True", invoiced.invoices, <<>>)
        ELSE Returned("", "True", invoiced.payment, invoiced.payment, 0, "True",
                      invoiced.invoices,
                      <<notify_user(invoiced.payment, pk)>>)

\* Mutant of failure: the state is left as it was.
failure_keeps_state(b, payment, tx, pk, mail) ==
    IF mail = "fail"
    THEN Returned("SMTPException", "none", payment, payment, 0, "False",
                  <<>>, <<>>)
    ELSE Returned("", "False", payment, payment, 0, "False", <<>>,
                  <<notify_failure(payment, pk)>>)

\* Backend.failure.
failure(b, payment, tx, pk, mail) ==
    LET rejected == [payment EXCEPT !.state = Payment_REJECTED]
    IN  IF mail = "fail"
        THEN Returned("SMTPException", "none", rejected, rejected, 0, "False",
                      <<>>, <<>>)
        ELSE Returned("", "False", rejected, rejected, 0, "False", <<>>,
                      <<notify_failure(rejected, pk)>>)

\* Mutant of complete: without the check of the state.
complete_any_state(b, payment, tx, pk, request, conf, invoiceid, inv, mail) ==
    LET collected == collect(b, payment, pk, request)
    IN  IF collected.ok
        THEN success(b, collected.payment, tx, pk, conf, invoiceid, inv, mail)
        ELSE failure(b, collected.payment, tx, pk, mail)

\* Backend.complete.
complete(b, payment, tx, pk, request, conf, invoiceid, inv, mail) ==
    IF payment.state # Payment_PENDING
    THEN Returned("InvalidState", "none", payment, tx, 0, "none", <<>>, <<>>)
    ELSE LET collected == collect(b, payment, pk, request)
         IN  IF collected.ok
             THEN success(b, collected.payment, tx, pk, conf, invoiceid,
                          inv, mail)
             ELSE failure(b, collected.payment, tx, pk, mail)

\* Customer: whether any of name, address, city, country is missing
\* (is_empty) and the VAT ID on file.
VatIds == {"", "CZ8003280318", "CZ8003280317"}

\* validate_vatin raises ValidationError for a VAT ID that does not check.
validate_vatin_fails(vat) == vat = "CZ8003280317"

\* The VAT IDs the billing information form is submitted with.
SubmittedVats == {"CZ8003280318"}

\* Mutant of validate_customer: the VAT ID is not validated again.
validate_customer_no_vat(cust) ==
    IF cust.is_empty THEN "redirect_customer" ELSE "None"

\* PaymentView.validate_customer: None, or the redirect to the billing
\* information step.
validate_customer(cust) ==
    IF cust.is_empty THEN "redirect_customer"
    ELSE IF cust.vat # "" /\ validate_vatin_fails(cust.vat)
    THEN "redirect_customer"
    ELSE "None"

\* PaymentView.dispatch for a POST of the method form, up to the call of
\* the backend in form_valid: the redirect it answers with, or "backend".
PaymentView_dispatch(object, cust) ==
    IF object.state # Payment_NEW THEN "redirect_origin"
    ELSE IF validate_customer(cust) # "None" THEN validate_customer(cust)
    ELSE IF cust.is_empty THEN "redirect_payment"
    ELSE "backend"

\* Mutant of CompleteView.dispatch: without the checks of the state.
CompleteView_dispatch_no_check(object, conf) ==
    IF get_backend_KeyError(object.backend, conf) THEN "KeyError"
    ELSE "backend"

\* CompleteView.dispatch up to the construction of the backend.
CompleteView_dispatch(object, conf) ==
    IF object.state = Payment_NEW THEN "redirect_payment"
    ELSE IF object.state # Payment_PENDING THEN "redirect_origin"
    ELSE IF get_backend_KeyError(object.backend, conf) THEN "KeyError"
    ELSE "backend"

\* A web request: the view that handles it, the payment it is for, where
\* it stands, the backend it uses, self.object (the row as get_object read
\* it), the backend's self.payment, what initiate, collect and complete
\* ended with, how often perform ran, how many invoice records and
\* e-mails the request produced, the request data complete was called
\* with, the country and VAT ID posted with the billing information form,
\* the field its validation error is on, and the response.
Requests == 1..MaxRequests

\* No form data: a request that is not a POST of the billing form.
NoData == [country |-> NoKey, vat |-> NoKey]

IdleRequest ==
    [kind |-> "none", pk |-> NoPayment, pc |-> "idle", method |-> NoKey,
     object |-> NullRow, payment |-> NullRow,
     initiated |-> "none", completed |-> "none",
     performs |-> 0, collected |-> "none", invoices |-> 0, mails |-> 0,
     request |-> NoRequest, data |-> NoData, errors |-> NoKey,
     response |-> "none"]

\* The row a request has saved in its transaction and not yet committed:
\* after initiate returned None, self.payment as initiate saved it.
TxRow(r) == IF req[r].pc = "initiated" THEN req[r].payment ELSE NullRow

\* A request is taken by the first free worker.
FirstIdle(r) ==
    /\ req[r].pc = "idle"
    /\ \A q \in Requests : q < r => req[q].pc # "idle"

\* The request that holds the row lock of payment pk, if any.
LockHolders(pk) ==
    {r \in Requests : req[r].pk = pk /\ req[r].pc \in {"locked", "initiated"}}

Init ==
    /\ settings \in [PAYMENT_DEBUG : {TRUE}, PAYMENT_FAKTURACE : BOOLEAN,
                     PAYMENT_SECRET : {"secret"}]
    /\ customer \in {[is_empty |-> TRUE, vat |-> ""],
                     [is_empty |-> FALSE, vat |-> "CZ8003280317"],
                     [is_empty |-> FALSE, vat |-> "CZ8003280318"]}
    /\ \E recurring \in {"", "y"}, backend \in {NoKey, "pay", "pending", "thepay-card"} :
          db = <<NewPayment(recurring, backend, NoPayment)>>
    /\ req = [r \in Requests |-> IdleRequest]
    /\ store = <<>>
    /\ outbox = <<>>
    /\ posts = {}
    /\ returned = NotCalled
    /\ started = 0

\* CustomerView.form_valid: the billing information form is saved and
\* the user is sent back to the payment page.  The view answers only for
\* a NEW payment (PaymentView.dispatch).
CustomerViewPost(r, pk, vat) ==
    /\ FirstIdle(r)
    /\ db[pk].state = Payment_NEW
    /\ ~validate_vatin_fails(vat)
    /\ customer' = [is_empty |-> FALSE, vat |-> vat]
    /\ customer' # customer
    /\ req' = [req EXCEPT ![r] =
             [IdleRequest EXCEPT !.kind = "customer", !.pk = pk,
                 !.object = db[pk], !.pc = "done",
                 !.response = "redirect_payment"]]
    /\ UNCHANGED <<settings, db, store, outbox, posts, returned, started>>

\* PaymentView: a POST of the method form arrives.
PaymentViewPost(r, pk, method) ==
    /\ FirstIdle(r)
    /\ started < MaxOps
    /\ method \in list_backends(settings)
    /\ LET object == db[pk]
           next == PaymentView_dispatch(object, customer)
       IN  req' = [req EXCEPT ![r] =
                [IdleRequest EXCEPT !.kind = "payment", !.pk = pk,
                    !.object = object,
                    !.method = IF next = "backend" THEN method ELSE NoKey,
                    !.pc = IF next = "backend" THEN "backend" ELSE "done",
                    !.response = IF next = "backend" THEN "none" ELSE next]]
    /\ started' = started + 1
    /\ UNCHANGED <<settings, customer, db, store, outbox, posts, returned>>

\* CompleteView: the completion callback arrives.
CompleteViewGet(r, pk) ==
    /\ FirstIdle(r)
    /\ started < MaxOps
    /\ LET object == db[pk]
           next == CompleteView_dispatch(object, settings)
       IN  req' = [req EXCEPT ![r] =
                [IdleRequest EXCEPT !.kind = "complete", !.pk = pk,
                    !.object = object,
                    !.method = IF next = "backend" THEN object.backend ELSE NoKey,
                    !.pc = IF next = "backend" THEN "backend" ELSE "done",
                    !.response = IF next = "backend" THEN "none" ELSE next]]
    /\ started' = started + 1
    /\ UNCHANGED <<settings, customer, db, store, outbox, posts, returned>>

\* Mutant of Backend.__init__: the payment object passed in is used as it
\* is, not read again under the lock.
Backend_init_stale(object, row) == object

\* Backend.__init__: select_for_update waits for the row lock, then reads
\* the row as last committed.
Backend_init(object, row) == row

BackendInit(r) ==
    /\ req[r].pc = "backend"
    /\ LockHolders(req[r].pk) = {}
    /\ LET row == Backend_init(req[r].object, db[req[r].pk])
       IN  req' = [req EXCEPT ![r].pc = "locked", ![r].payment = row]
    /\ UNCHANGED <<settings, customer, db, store, outbox, posts, returned, started>>

\* PaymentView.form_valid calls backend.initiate.  A redirect is returned
\* to the user and the transaction commits; an exception rolls it back;
\* with None the request goes on to backend.complete.
Initiate(r) ==
    /\ req[r].kind = "payment"
    /\ req[r].pc = "locked"
    /\ LET ret == initiate(BACKENDS(req[r].method), req[r].payment, TxRow(r))
           commit == ret.raised = "" /\ ret.result = "redirect"
       IN  /\ req' = [req EXCEPT ![r].payment = ret.payment,
                         ![r].performs = @ + ret.performs,
                         ![r].initiated =
                             IF ret.raised # "" THEN ret.raised ELSE ret.result,
                         ![r].pc =
                             IF ret.raised = "" /\ ret.result = "None"
                             THEN "initiated" ELSE "done",
                         ![r].response =
                             IF ret.raised # "" THEN ret.raised
                             ELSE IF ret.result = "redirect"
                             THEN "redirect_gateway" ELSE "none"]
           /\ db' = IF commit THEN [db EXCEPT ![req[r].pk] = ret.tx] ELSE db
    /\ UNCHANGED <<settings, customer, store, outbox, posts, returned, started>>

\* backend.complete, called by PaymentView.form_valid after initiate
\* returned None, or by CompleteView.dispatch.  The transaction commits
\* when complete returns and is rolled back when it raises; the invoices
\* written and the e-mails sent stay.
Complete(r, request, inv, mail) ==
    /\ \/ req[r].kind = "payment" /\ req[r].pc = "initiated"
       \/ req[r].kind = "complete" /\ req[r].pc = "locked"
    /\ request \in CallbacksOf(req[r].method)
    /\ LET ret == complete(BACKENDS(req[r].method), req[r].payment, TxRow(r),
                           req[r].pk, request, settings, Len(store) + 1,
                           inv, mail)
       IN  /\ req' = [req EXCEPT ![r].payment = ret.payment,
                         ![r].request = request,
                         ![r].collected = ret.collected,
                         ![r].invoices = @ + Len(ret.invoices),
                         ![r].mails = @ + Len(ret.mails),
                         ![r].completed =
                             IF ret.raised # "" THEN ret.raised ELSE ret.result,
                         ![r].pc = "done",
                         ![r].response =
                             IF ret.raised # "" THEN ret.raised
                             ELSE "redirect_origin"]
           /\ db' = IF ret.raised = ""
                    THEN [db EXCEPT ![req[r].pk] = ret.tx] ELSE db
           /\ store' = store \o ret.invoices
           /\ outbox' = outbox \o ret.mails
    /\ UNCHANGED <<settings, customer, posts, returned, started>>

\* The response is sent and the worker is free for the next request.
Finish(r) ==
    /\ req[r].pc = "done"
    /\ req' = [req EXCEPT ![r] = IdleRequest]
    /\ UNCHANGED <<settings, customer, db, store, outbox, posts, returned, started>>

\* The newest of a set of rows.
Maximum(S) == CHOOSE x \in S : \A y \in S : y <= x

\* Mutant of the failure count: a PROCESSED renewal does not reset it.
repeat_failures_no_reset(rows, pk) ==
    {i \in DOMAIN rows :
        rows[i].repeat = pk /\ rows[i].state = Payment_REJECTED}

\* Mutant of the failure count: a PENDING renewal is counted as a
\* rejected one.
repeat_failures_unfinished(rows, pk) ==
    LET previous == {i \in DOMAIN rows : rows[i].repeat = pk}
        good == {i \in previous : rows[i].state = Payment_PROCESSED}
    IN  {i \in previous :
            /\ rows[i].state \in {Payment_REJECTED, Payment_PENDING}
            /\ good = {} \/ i > Maximum(good)}

\* Mutant of the failure count: an ACCEPTED renewal resets it as a
\* PROCESSED one does.
repeat_failures_since_paid(rows, pk) ==
    LET previous == {i \in DOMAIN rows : rows[i].repeat = pk}
        good == {i \in previous :
                    rows[i].state \in {Payment_ACCEPTED, Payment_PROCESSED}}
    IN  {i \in previous :
            /\ rows[i].state = Payment_REJECTED
            /\ good = {} \/ i > Maximum(good)}

\* Payment.repeat_payment, the failures it counts: the REJECTED renewals
\* of payment pk created after its latest PROCESSED renewal (all REJECTED
\* ones when none is PROCESSED).
repeat_failures(rows, pk) ==
    LET previous == {i \in DOMAIN rows : rows[i].repeat = pk}
        good == {i \in previous : rows[i].state = Payment_PROCESSED}
    IN  {i \in previous :
            /\ rows[i].state = Payment_REJECTED
            /\ good = {} \/ i > Maximum(good)}

\* Payment.get_payment_url: PAYMENT_REDIRECT_URL with the language and
\* the uuid of the payment filled in.
get_payment_url(pk) == [language |-> "en", uuid |-> pk]

\* Payment.objects.create as repeat_payment calls it: the fields not
\* passed take the defaults of the model (state NEW, backend '', details
\* {}, invoice '').
Payment_create(amount, description, recurring, owner, amount_fixed, repeat, extra) ==
    [NewPayment(recurring, NoKey, repeat) EXCEPT
        !.amount = amount, !.description = description,
        !.customer = owner, !.amount_fixed = amount_fixed,
        !.extra = extra]

\* Mutants of repeat_payment: refusing after more than 3 failures only;
\* the new row inside the transaction that the failing trigger leaves;
\* the recurring period and the extra of the original kept as they are.
repeat_payment_more_than_3(rows, pk, conf, kwargs, trigger) ==
    LET self == rows[pk]
        extra == dict_update(dict_update(NoExtra, self.extra), kwargs)
        payment == Payment_create(self.amount, self.description, "",
                                  self.customer, self.amount_fixed, pk, extra)
    IN  IF get_backend_KeyError(self.backend, conf)
        THEN [value |-> "False", rows |-> rows, posts |-> {}]
        ELSE IF Cardinality(repeat_failures(rows, pk)) > 3
        THEN [value |-> "False", rows |-> rows, posts |-> {}]
        ELSE [value |-> IF trigger = "fail" THEN "ConnectionError" ELSE "None",
              rows |-> Append(rows, payment),
              posts |-> IF trigger = "fail" THEN {}
                        ELSE {[url |-> get_payment_url(pk),
                               method |-> self.backend,
                               secret |-> conf.PAYMENT_SECRET]}]

repeat_payment_rollback(rows, pk, conf, kwargs, trigger) ==
    LET self == rows[pk]
        extra == dict_update(dict_update(NoExtra, self.extra), kwargs)
        payment == Payment_create(self.amount, self.description, "",
                                  self.customer, self.amount_fixed, pk, extra)
    IN  IF get_backend_KeyError(self.backend, conf)
        THEN [value |-> "False", rows |-> rows, posts |-> {}]
        ELSE IF Cardinality(repeat_failures(rows, pk)) >= 3
        THEN [value |-> "False", rows |-> rows, posts |-> {}]
        ELSE [value |-> IF trigger = "fail" THEN "ConnectionError" ELSE "None",
              rows |-> IF trigger = "fail" THEN rows
                       ELSE Append(rows, payment),
              posts |-> IF trigger = "fail" THEN {}
                        ELSE {[url |-> get_payment_url(pk),
                               method |-> self.backend,
                               secret |-> conf.PAYMENT_SECRET]}]

repeat_payment_copy(rows, pk, conf, kwargs, trigger) ==
    LET self == rows[pk]
        payment == Payment_create(self.amount, self.description,
                                  self.recurring, self.customer,
                                  self.amount_fixed, pk, self.extra)
    IN  IF get_backend_KeyError(self.backend, conf)
        THEN [value |-> "False", rows |-> rows, posts |-> {}]
        ELSE IF Cardinality(repeat_failures(rows, pk)) >= 3
        THEN [value |-> "False", rows |-> rows, posts |-> {}]
        ELSE [value |-> IF trigger = "fail" THEN "ConnectionError" ELSE "None",
              rows |-> Append(rows, payment),
              posts |-> IF trigger = "fail" THEN {}
                        ELSE {[url |-> get_payment_url(pk),
                               method |-> self.backend,
                               secret |-> conf.PAYMENT_SECRET]}]

\* Payment.repeat_payment(**kwargs) on payment pk: the value returned (or
\* the exception requests.post raised), the rows after it and the POST
\* that was delivered: to the payment URL of self, with self.backend as
\* the method and PAYMENT_SECRET as the secret.  The row is created in a
\* transaction that has committed when the POST is sent.
repeat_payment(rows, pk, conf, kwargs, trigger) ==
    LET self == rows[pk]
        extra == dict_update(dict_update(NoExtra, self.extra), kwargs)
        payment == Payment_create(self.amount, self.description, "",
                                  self.customer, self.amount_fixed, pk, extra)
    IN  IF get_backend_KeyError(self.backend, conf)
        THEN [value |-> "False", rows |-> rows, posts |-> {}]
        ELSE IF Cardinality(repeat_failures(rows, pk)) >= 3
        THEN [value |-> "False", rows |-> rows, posts |-> {}]
        ELSE [value |-> IF trigger = "fail" THEN "ConnectionError" ELSE "None",
              rows |-> Append(rows, payment),
              posts |-> IF trigger = "fail" THEN {}
                        ELSE {[url |-> get_payment_url(pk),
                               method |-> self.backend,
                               secret |-> conf.PAYMENT_SECRET]}]

\* A call of repeat_payment on payment pk, a payment of a recurring
\* donation that was accepted and processed; limit bounds the rows.
RepeatPaymentCall(pk, kwargs, trigger, limit) ==
    /\ db[pk].state = Payment_PROCESSED
    /\ db[pk].recurring # ""
    /\ LET ret == repeat_payment(db, pk, settings, kwargs, trigger)
       IN  /\ Len(ret.rows) <= limit
           /\ db' = ret.rows
           /\ posts' = posts \cup ret.posts
           /\ returned' = [pk |-> pk, kwargs |-> kwargs, value |-> ret.value]
    /\ UNCHANGED <<settings, customer, req, store, outbox, started>>

\* The renewal job calls repeat_payment without overrides.
RepeatPayment(pk, trigger) ==
    RepeatPaymentCall(pk, NoExtra, trigger, MaxPayments)

\* process_payment: the origin turns an ACCEPTED payment into a donation
\* and marks it PROCESSED.
process_payment(payment) == [payment EXCEPT !.state = Payment_PROCESSED]

MarkProcessed(pk) ==
    /\ db[pk].state = Payment_ACCEPTED
    /\ db' = [db EXCEPT ![pk] = process_payment(db[pk])]
    /\ UNCHANGED <<settings, customer, req, store, outbox, posts, returned, started>>

Next ==
    \/ \E r \in Requests, pk \in DOMAIN db, vat \in SubmittedVats :
          CustomerViewPost(r, pk, vat)
    \/ \E r \in Requests, pk \in DOMAIN db, method \in BackendNames :
          PaymentViewPost(r, pk, method)
    \/ \E r \in Requests, pk \in DOMAIN db : CompleteViewGet(r, pk)
    \/ \E r \in Requests : BackendInit(r)
    \/ \E r \in Requests : Initiate(r)
    \/ \E r \in Requests, inv \in Outcomes, mail \in Outcomes :
          \E request \in CallbacksOf(req[r].method) :
             Complete(r, request, inv, mail)
    \/ \E r \in Requests : Finish(r)
    \/ \E pk \in DOMAIN db, trigger \in Outcomes : RepeatPayment(pk, trigger)
    \/ \E pk \in DOMAIN db : MarkProcessed(pk)

Spec == Init /\ [][Next]_vars

(***************************************************************************)
(* The renewal chain of one recurring payment: repeat_payment is called    *)
(* on the original again and again while the renewals it created are       *)
(* charged, which ends them REJECTED or ACCEPTED, and processed.           *)
(***************************************************************************)

\* The original: the payment of a recurring donation, PROCESSED.
Original == 1

ProcessedPayment(backend) ==
    [NewPayment("y", backend, NoPayment) EXCEPT !.state = Payment_PROCESSED]

\* The backend names on file: registered ones, none, and one that is no
\* longer registered.
StoredBackends == {NoKey, "pay", "thepay-card", "paypal"}

RepeatInit ==
    /\ settings \in [PAYMENT_DEBUG : BOOLEAN, PAYMENT_FAKTURACE : {FALSE},
                     PAYMENT_SECRET : {"secret"}]
    /\ customer = [is_empty |-> FALSE, vat |-> "CZ8003280318"]
    /\ \E backend \in StoredBackends : db = <<ProcessedPayment(backend)>>
    /\ req = [r \in Requests |-> IdleRequest]
    /\ store = <<>>
    /\ outbox = <<>>
    /\ posts = {}
    /\ returned = NotCalled
    /\ started = 0

\* The state of a renewal is updated with the outcome of its charge.
FlagRenewal(pk, state) ==
    /\ db[pk].repeat # NoPayment
    /\ db[pk].state = Payment_NEW
    /\ state \in {Payment_REJECTED, Payment_ACCEPTED}
    /\ db' = [db EXCEPT ![pk].state = state]
    /\ UNCHANGED <<settings, customer, req, store, outbox, posts, returned, started>>

RepeatNext ==
    \/ \E trigger \in Outcomes :
          RepeatPaymentCall(Original, NoExtra, trigger, MaxRenewals + 1)
    \/ \E pk \in DOMAIN db, state \in States : FlagRenewal(pk, state)
    \/ \E pk \in DOMAIN db : MarkProcessed(pk)

RepeatSpec == RepeatInit /\ [][RepeatNext]_vars

(***************************************************************************)
(* The rows repeat_payment creates, for originals and overrides of every   *)
(* kind.                                                                   *)
(***************************************************************************)

Amounts == {100, 250}
Descriptions == {"Test payment", "Weblate donation"}
Customers == {1, 2}

CreateInit ==
    /\ settings = [PAYMENT_DEBUG |-> TRUE, PAYMENT_FAKTURACE |-> FALSE,
                   PAYMENT_SECRET |-> "secret"]
    /\ customer = [is_empty |-> FALSE, vat |-> "CZ8003280318"]
    /\ \E amount \in Amounts, description \in Descriptions,
          owner \in Customers, amount_fixed \in BOOLEAN, extra \in Dicts,
          recurring \in RECURRENCE_CHOICES \ {""} :
          db = <<[ProcessedPayment("pay") EXCEPT
                     !.amount = amount, !.description = description,
                     !.customer = owner, !.amount_fixed = amount_fixed,
                     !.extra = extra, !.recurring = recurring]>>
    /\ req = [r \in Requests |-> IdleRequest]
    /\ store = <<>>
    /\ outbox = <<>>
    /\ posts = {}
    /\ returned = NotCalled
    /\ started = 0

CreateNext ==
    \E kwargs \in Dicts, trigger \in Outcomes :
        RepeatPaymentCall(Original, kwargs, trigger, MaxCreated + 1)

CreateSpec == CreateInit /\ [][CreateNext]_vars

(***************************************************************************)
(* VAT: what Customer and Payment derive from the country, the VAT ID,     *)
(* the amount and amount_fixed.                                            *)
(***************************************************************************)

\* The countries with a VAT rate on file, and the flat rate applied.
EU_VAT_RATES ==
    {"BE", "BG", "CZ", "DK", "DE", "EE", "IE", "GR", "ES", "FR", "HR", "IT",
     "CY", "LV", "LT", "LU", "HU", "MT", "NL", "AT", "PL", "PT", "RO", "SI",
     "SK", "FI", "SE", "GB"}

VAT_RATE == 21

\* Customer.country (NoKey: none) and Customer.vat (NoKey: none) as they
\* occur here, the first two characters of a VAT ID, and str.upper.
Countries == {NoKey, "CZ", "DE", "US"}
CustomerVats == {NoKey, "CZ8003280318", "cz8003280318", "DE123456789", "US123456789"}

upper(code) ==
    CASE code = "cz" -> "CZ"
      [] OTHER -> code

first_two(vat) ==
    CASE vat = "CZ8003280318" -> "CZ"
      [] vat = "CZ8003280317" -> "CZ"
      [] vat = "cz8003280318" -> "cz"
      [] vat = "DE123456789" -> "DE"
      [] vat = "US123456789" -> "US"
      [] OTHER -> NoKey

\* Customer.country_code and Customer.vat_country_code (NoKey: None).
country_code(cust) ==
    IF cust.country # NoKey THEN upper(cust.country) ELSE NoKey

vat_country_code(cust) ==
    IF cust.vat # NoKey THEN upper(first_two(cust.vat)) ELSE NoKey

\* Mutant of clean: any country goes with any VAT ID.
clean_any_country(cust) == NoKey

\* Customer.clean: the field the ValidationError it raises is on (NoKey:
\* it raises none).
clean(cust) ==
    IF cust.vat # NoKey /\ vat_country_code(cust) # country_code(cust)
    THEN "country"
    ELSE NoKey

\* Customer.is_eu_enduser.
is_eu_enduser(cust) ==
    country_code(cust) \in EU_VAT_RATES /\ cust.vat = NoKey

\* Mutant of needs_vat: only the EU end user needs VAT.
needs_vat_enduser_only(cust) ==
    is_eu_enduser(cust)

\* Customer.needs_vat and Customer.vat_rate.
needs_vat(cust) ==
    vat_country_code(cust) = "CZ" \/ is_eu_enduser(cust)

vat_rate(cust) ==
    IF needs_vat(cust) THEN VAT_RATE ELSE 0

\* round(x, 2) of x = num / den, in hundredths: the nearest hundredth,
\* a tie going to the even one.
round2(num, den) ==
    LET q == (100 * num) \div den
        rest == (100 * num) % den
    IN  IF 2 * rest > den \/ (2 * rest = den /\ q % 2 = 1) THEN q + 1 ELSE q

\* Mutant of vat_amount: amount_fixed is not looked at.
vat_amount_unfixed(payment, cust) ==
    IF needs_vat(cust)
    THEN round2((100 + vat_rate(cust)) * payment.amount, 100)
    ELSE 100 * payment.amount

\* Payment.vat_amount, in hundredths.
vat_amount(payment, cust) ==
    IF needs_vat(cust) /\ ~payment.amount_fixed
    THEN round2((100 + vat_rate(cust)) * payment.amount, 100)
    ELSE 100 * payment.amount

\* Mutant of amount_without_vat: the amount is returned as it is.
amount_without_vat_gross(payment, cust) ==
    [num |-> payment.amount, den |-> 1]

\* Payment.amount_without_vat, a float: the quotient num / den.
amount_without_vat(payment, cust) ==
    IF needs_vat(cust) /\ payment.amount_fixed
    THEN [num |-> 100 * payment.amount, den |-> 100 + vat_rate(cust)]
    ELSE [num |-> payment.amount, den |-> 1]

VatAmounts == {1, 100, 121, 250}

VatInit ==
    /\ settings = [PAYMENT_DEBUG |-> TRUE, PAYMENT_FAKTURACE |-> FALSE,
                   PAYMENT_SECRET |-> "secret"]
    /\ \E country \in Countries, vat \in CustomerVats :
          customer = [is_empty |-> country = NoKey, vat |-> vat,
                      country |-> country]
    /\ \E amount \in VatAmounts, amount_fixed \in BOOLEAN :
          db = <<[NewPayment("", NoKey, NoPayment) EXCEPT
                     !.amount = amount, !.amount_fixed = amount_fixed]>>
    /\ req = [r \in Requests |-> IdleRequest]
    /\ store = <<>>
    /\ outbox = <<>>
    /\ posts = {}
    /\ returned = NotCalled
    /\ started = 0

\* The customer's country and VAT ID are saved.
SaveCustomer(country, vat) ==
    /\ customer' = [is_empty |-> country = NoKey, vat |-> vat,
                    country |-> country]
    /\ customer' # customer
    /\ UNCHANGED <<settings, db, req, store, outbox, posts, returned, started>>

\* The amounts of payment pk are computed for its customer: the rate
\* for the invoice line, the value to charge at the gateway.
Quote(pk) ==
    /\ returned' =
          [pk |-> pk, kwargs |-> NoExtra, value |-> "quote",
           customer |-> customer, payment |-> db[pk],
           needs_vat |-> needs_vat(customer),
           vat_rate |-> vat_rate(customer),
           vat_amount |-> vat_amount(db[pk], customer),
           amount_without_vat |-> amount_without_vat(db[pk], customer)]
    /\ returned' # returned
    /\ UNCHANGED <<settings, customer, db, req, store, outbox, posts, started>>

\* The amount of payment pk, not fixed, is grossed by vat_amount, and
\* amount_without_vat is taken of a payment with amount_fixed that
\* carries the grossed value.  The grossed value and the quotient
\* recovered from it are in hundredths.
RoundTrip(pk) ==
    /\ ~db[pk].amount_fixed
    /\ LET grossed == vat_amount(db[pk], customer)
           fixed == [db[pk] EXCEPT !.amount = grossed, !.amount_fixed = TRUE]
       IN  returned' =
              [pk |-> pk, kwargs |-> NoExtra, value |-> "roundtrip",
               customer |-> customer, payment |-> db[pk],
               needs_vat |-> needs_vat(customer),
               grossed |-> grossed,
               recovered |-> amount_without_vat(fixed, customer)]
    /\ returned' # returned
    /\ UNCHANGED <<settings, customer, db, req, store, outbox, posts, started>>

VatNext ==
    \/ \E country \in Countries, vat \in CustomerVats :
          SaveCustomer(country, vat)
    \/ \E pk \in DOMAIN db : Quote(pk)
    \/ \E pk \in DOMAIN db : RoundTrip(pk)

VatSpec == VatInit /\ [][VatNext]_vars

(***************************************************************************)
(* Billing information: a customer, created without any, fills in the     *)
(* billing information form and pays.                                      *)
(***************************************************************************)

\* The countries and VAT IDs the form is posted with; the VAT IDs pass
\* the validators of the vat field.
FormCountries == {"CZ", "DE", "US"}
FormVats == {NoKey, "CZ8003280318", "DE123456789"}

BillingInit ==
    /\ settings = [PAYMENT_DEBUG |-> TRUE, PAYMENT_FAKTURACE |-> FALSE,
                   PAYMENT_SECRET |-> "secret"]
    /\ customer = [is_empty |-> TRUE, vat |-> NoKey, country |-> NoKey]
    /\ \E recurring \in {"", "y"} :
          db = <<NewPayment(recurring, NoKey, NoPayment)>>
    /\ req = [r \in Requests |-> IdleRequest]
    /\ store = <<>>
    /\ outbox = <<>>
    /\ posts = {}
    /\ returned = NotCalled
    /\ started = 0

\* CustomerView: a POST of the billing information form with name,
\* address, city, country and VAT ID.  PaymentView.dispatch answers a
\* payment that is not NEW with the redirect to the origin; the form is
\* validated, which ends in Customer.clean of the instance with the data
\* posted; a valid form is saved (form_valid), an invalid one is shown
\* again with its errors and nothing is saved.
CustomerViewForm(r, pk, country, vat) ==
    /\ FirstIdle(r)
    /\ started < MaxOps
    /\ LET object == db[pk]
           instance == [is_empty |-> FALSE, vat |-> vat, country |-> country]
           errors == clean(instance)
           posted == [IdleRequest EXCEPT !.kind = "customer", !.pk = pk,
                         !.object = object, !.pc = "done",
                         !.data = [country |-> country, vat |-> vat]]
       IN  IF object.state # Payment_NEW
           THEN /\ req' = [req EXCEPT ![r] =
                       [posted EXCEPT !.response = "redirect_origin"]]
                /\ customer' = customer
           ELSE IF errors # NoKey
           THEN /\ req' = [req EXCEPT ![r] =
                       [posted EXCEPT !.errors = errors,
                                      !.response = "form_invalid"]]
                /\ customer' = customer
           ELSE /\ req' = [req EXCEPT ![r] =
                       [posted EXCEPT !.response = "redirect_payment"]]
                /\ customer' = instance
    /\ started' = started + 1
    /\ UNCHANGED <<settings, db, store, outbox, posts, returned>>

BillingNext ==
    \/ \E r \in Requests, pk \in DOMAIN db, country \in FormCountries,
          vat \in FormVats : CustomerViewForm(r, pk, country, vat)
    \/ \E r \in Requests, pk \in DOMAIN db, method \in {"pay", "pending"} :
          PaymentViewPost(r, pk, method)
    \/ \E r \in Requests : BackendInit(r)
    \/ \E r \in Requests : Initiate(r)
    \/ \E r \in Requests, inv \in Outcomes, mail \in Outcomes :
          \E request \in CallbacksOf(req[r].method) :
             Complete(r, request, inv, mail)
    \/ \E r \in Requests : Finish(r)

BillingSpec == BillingInit /\ [][BillingNext]_vars

(***************************************************************************)
(* The failure count of repeat_payment, for chains with renewals in every *)
(* state: charged and processed in any order, whatever the order they     *)
(* were created in.                                                        *)
(***************************************************************************)

\* A renewal as repeat_payment created it, in the state it has reached.
Renewal(state) == [NewPayment("", NoKey, Original) EXCEPT !.state = state]

ChainInit ==
    /\ settings = [PAYMENT_DEBUG |-> TRUE, PAYMENT_FAKTURACE |-> FALSE,
                   PAYMENT_SECRET |-> "secret"]
    /\ customer = [is_empty |-> FALSE, vat |-> "CZ8003280318"]
    /\ \E n \in 0..MaxChain : \E states \in [1..n -> States] :
          db = <<ProcessedPayment("pay")>> \o [i \in 1..n |-> Renewal(states[i])]
    /\ req = [r \in Requests |-> IdleRequest]
    /\ store = <<>>
    /\ outbox = <<>>
    /\ posts = {}
    /\ returned = NotCalled
    /\ started = 0

ChainNext ==
    \/ \E trigger \in Outcomes :
          RepeatPaymentCall(Original, NoExtra, trigger, MaxChain + 1)
    \/ \E pk \in DOMAIN db, state \in States : FlagRenewal(pk, state)
    \/ \E pk \in DOMAIN db : MarkProcessed(pk)

ChainSpec == ChainInit /\ [][ChainNext]_vars

(***************************************************************************)
(* A donation and its payment: the donor pays, the payment is processed,  *)
(* and the donor turns the recurrence off (disable_repeat).               *)
(***************************************************************************)

\* The payment of a donation: as create_payment makes it (NEW, annual,
\* backend pay), or processed.
DonationInit ==
    /\ settings = [PAYMENT_DEBUG |-> TRUE, PAYMENT_FAKTURACE |-> TRUE,
                   PAYMENT_SECRET |-> "secret"]
    /\ customer = [is_empty |-> FALSE, vat |-> "CZ8003280318"]
    /\ db \in {<<NewPayment("y", "pay", NoPayment)>>,
               <<ProcessedPayment("pay")>>}
    /\ req = [r \in Requests |-> IdleRequest]
    /\ store = <<>>
    /\ outbox = <<>>
    /\ posts = {}
    /\ returned = NotCalled
    /\ started = 0

\* disable_repeat: donation.payment_obj reads the payment of the
\* donation, outside any transaction and without a lock.
DisableRepeatGet(r, pk) ==
    /\ FirstIdle(r)
    /\ started < MaxOps
    /\ db[pk].repeat = NoPayment
    /\ req' = [req EXCEPT ![r] =
             [IdleRequest EXCEPT !.kind = "disable", !.pk = pk,
                 !.object = db[pk], !.pc = "fetched"]]
    /\ started' = started + 1
    /\ UNCHANGED <<settings, customer, db, store, outbox, posts, returned>>

\* disable_repeat: payment.recurring = '' and payment.save(), which
\* writes every field of the object as it was read; the UPDATE waits
\* for a row lock to be released.
DisableRepeatSave(r) ==
    /\ req[r].kind = "disable"
    /\ req[r].pc = "fetched"
    /\ LockHolders(req[r].pk) = {}
    /\ LET payment == [req[r].object EXCEPT !.recurring = ""]
       IN  /\ db' = [db EXCEPT ![req[r].pk] = payment]
           /\ req' = [req EXCEPT ![r].payment = payment, ![r].pc = "done",
                         ![r].response = "redirect_donate"]
    /\ UNCHANGED <<settings, customer, store, outbox, posts, returned, started>>

DonationNext ==
    \/ \E r \in Requests, pk \in DOMAIN db : DisableRepeatGet(r, pk)
    \/ \E r \in Requests : DisableRepeatSave(r)
    \/ \E r \in Requests, pk \in DOMAIN db, method \in {"pay", "pending"} :
          PaymentViewPost(r, pk, method)
    \/ \E r \in Requests, pk \in DOMAIN db : CompleteViewGet(r, pk)
    \/ \E r \in Requests : BackendInit(r)
    \/ \E r \in Requests : Initiate(r)
    \/ \E r \in Requests, inv \in Outcomes, mail \in Outcomes :
          \E request \in CallbacksOf(req[r].method) :
             Complete(r, request, inv, mail)
    \/ \E r \in Requests : Finish(r)
    \/ \E pk \in DOMAIN db : MarkProcessed(pk)

DonationSpec == DonationInit /\ [][DonationNext]_vars

(***************************************************************************)
(* The backend registry, with debug mode on and off: the names the method *)
(* form offers, the backend it constructs, and lookups by name.           *)
(***************************************************************************)

\* The names looked up: the registered ones, none, and one that is not
\* registered.
LookupNames == BackendNames \cup {NoKey, "paypal"}

RegistryInit ==
    /\ settings \in [PAYMENT_DEBUG : BOOLEAN, PAYMENT_FAKTURACE : {FALSE},
                     PAYMENT_SECRET : {"secret"}]
    /\ customer = [is_empty |-> FALSE, vat |-> "CZ8003280318"]
    /\ db = <<NewPayment("", NoKey, NoPayment)>>
    /\ req = [r \in Requests |-> IdleRequest]
    /\ store = <<>>
    /\ outbox = <<>>
    /\ posts = {}
    /\ returned = NotCalled
    /\ started = 0

\* get_backend(name) and list_backends() are called: whether get_backend
\* returned a backend (it raised KeyError otherwise) and whether a
\* backend of that name is in the list.
Lookup(name) ==
    /\ returned' =
          [pk |-> NoPayment, kwargs |-> NoExtra, value |-> "lookup",
           name |-> name,
           found |-> ~get_backend_KeyError(name, settings),
           listed |-> name \in list_backends(settings)]
    /\ returned' # returned
    /\ UNCHANGED <<settings, customer, db, req, store, outbox, posts, started>>

RegistryNext ==
    \/ \E name \in LookupNames : Lookup(name)
    \/ \E r \in Requests, pk \in DOMAIN db, method \in BackendNames :
          PaymentViewPost(r, pk, method)
    \/ \E r \in Requests : BackendInit(r)
    \/ \E r \in Requests : Initiate(r)
    \/ \E r \in Requests, inv \in Outcomes, mail \in Outcomes :
          \E request \in CallbacksOf(req[r].method) :
             Complete(r, request, inv, mail)
    \/ \E r \in Requests : Finish(r)

RegistrySpec == RegistryInit /\ [][RegistryNext]_vars

(***************************************************************************)
(* Progress: the collaborators work (invoice generation and e-mail        *)
(* delivery do not raise), the gateway delivers the completion callback   *)
(* of a payment it was sent, again when it has to, and a request that     *)
(* was accepted by a worker is run to its end.                            *)
(***************************************************************************)

\* CompleteView: the gateway calls the completion URL of a payment that
\* was initiated.  The gateway repeats the callback without limit.
DeliverCallback(r, pk) ==
    /\ pk \in DOMAIN db
    /\ FirstIdle(r)
    /\ db[pk].state # Payment_NEW
    /\ LET object == db[pk]
           next == CompleteView_dispatch(object, settings)
       IN  req' = [req EXCEPT ![r] =
                [IdleRequest EXCEPT !.kind = "complete", !.pk = pk,
                    !.object = object,
                    !.method = IF next = "backend" THEN object.backend ELSE NoKey,
                    !.pc = IF next = "backend" THEN "backend" ELSE "done",
                    !.response = IF next = "backend" THEN "none" ELSE next]]
    /\ UNCHANGED <<settings, customer, db, store, outbox, posts, returned, started>>

\* backend.complete with collaborators that work.
CompleteOk(r) ==
    \E request \in CallbacksOf(req[r].method) : Complete(r, request, "ok", "ok")

LiveNext ==
    \/ \E r \in Requests, pk \in DOMAIN db, method \in BackendNames :
          PaymentViewPost(r, pk, method)
    \/ \E r \in Requests, pk \in DOMAIN db : DeliverCallback(r, pk)
    \/ \E r \in Requests : BackendInit(r)
    \/ \E r \in Requests : Initiate(r)
    \/ \E r \in Requests : CompleteOk(r)
    \/ \E r \in Requests : Finish(r)

\* The database grants a free row lock, a view that was entered runs on,
\* and every initiated payment gets its callback.
LiveFairness ==
    /\ \A r \in Requests :
          /\ WF_vars(BackendInit(r))
          /\ WF_vars(Initiate(r))
          /\ WF_vars(CompleteOk(r))
          /\ WF_vars(Finish(r))
    /\ \A pk \in 1..MaxPayments :
          WF_vars(\E r \in Requests : DeliverCallback(r, pk))

LiveSpec == Init /\ [][LiveNext]_vars /\ LiveFairness

(***************************************************************************)
(* The claims.                                                             *)
(***************************************************************************)

\* Request r is about to run backend.initiate / backend.complete.
AtInitiate(r) == req[r].kind = "payment" /\ req[r].pc = "locked"

AtComplete(r) ==
    \/ req[r].kind = "payment" /\ req[r].pc = "initiated"
    \/ req[r].kind = "complete" /\ req[r].pc = "locked"

\* One step of the lifecycle, and a step of a stored row: a request that
\* runs initiate and complete in one transaction commits NEW -> ACCEPTED
\* or NEW -> REJECTED, passing through PENDING inside the transaction.
LifecycleStep(s, t) ==
    \/ s = Payment_NEW /\ t = Payment_PENDING
    \/ s = Payment_PENDING /\ t \in {Payment_ACCEPTED, Payment_REJECTED}
    \/ s = Payment_ACCEPTED /\ t = Payment_PROCESSED

StoredStep(s, t) ==
    \/ LifecycleStep(s, t)
    \/ s = Payment_NEW /\ t \in {Payment_ACCEPTED, Payment_REJECTED}

C2_InitiateNotNew ==
    [][\A r \in Requests :
          (AtInitiate(r) /\ req[r].payment.state # Payment_NEW
              /\ req'[r] # req[r]) =>
             /\ req'[r].initiated = "InvalidState"
             /\ req'[r].response = "InvalidState"
             /\ req'[r].performs = req[r].performs
             /\ req'[r].payment = req[r].payment
             /\ db' = db /\ store' = store /\ outbox' = outbox
      ]_vars

\* C2 witness: a second initiate, on a payment that a first initiate has
\* made PENDING, has raised InvalidState.
C2_Witness ==
    \E r \in Requests :
        /\ req[r].initiated = "InvalidState"
        /\ req[r].object.state = Payment_NEW
        /\ req[r].payment.state = Payment_PENDING
        /\ req[r].payment.details.backend # NoKey

\* C3: initiate on a NEW Payment that has repeat set, through a backend
\* without recurring capability, raises InvalidState, does not invoke
\* perform and leaves the Payment NEW with nothing changed.
C3_InitiateRepeatNotRecurring ==
    [][\A r \in Requests :
          (AtInitiate(r) /\ req[r].payment.state = Payment_NEW
              /\ req[r].payment.repeat # NoPayment
              /\ ~BACKENDS(req[r].method).recurring
              /\ req'[r] # req[r]) =>
             /\ req'[r].initiated = "InvalidState"
             /\ req'[r].performs = req[r].performs
             /\ req'[r].payment = req[r].payment
             /\ db'[req[r].pk].state = Payment_NEW
             /\ db' = db /\ store' = store /\ outbox' = outbox
      ]_vars

\* C3 witness: initiate of a renewal through reject, pending or
\* thepay-bitcoin has raised InvalidState.
C3_Witness ==
    \E r \in Requests :
        /\ req[r].initiated = "InvalidState"
        /\ req[r].payment.state = Payment_NEW
        /\ req[r].payment.repeat # NoPayment
        /\ req[r].method \in {"reject", "pending", "thepay-bitcoin"}

\* C4: whenever initiate returns, with a redirect or with None, perform
\* has been invoked exactly once and the Payment is saved as PENDING (in
\* the transaction; committed at once when a redirect is returned).
C4_InitiatePending ==
    [][\A r \in Requests :
          (AtInitiate(r) /\ req'[r].initiated \in {"None", "redirect"}) =>
             /\ req[r].payment.state = Payment_NEW
             /\ req'[r].performs = req[r].performs + 1
             /\ req'[r].payment.state = Payment_PENDING
             /\ req'[r].initiated = "redirect" =>
                   db'[req[r].pk].state = Payment_PENDING
             /\ req'[r].initiated = "None" =>
                   /\ req'[r].pc = "initiated"
                   /\ TxRow(r)'.state = Payment_PENDING
      ]_vars

\* C4 witness: one initiate has returned None and another a redirect.
C4_Witness ==
    \E r, q \in Requests :
        /\ req[r].initiated = "None" /\ req[r].performs = 1
        /\ req[q].initiated = "redirect" /\ req[q].performs = 1
        /\ db[req[q].pk].state = Payment_PENDING

\* C5: after a successful initiate by backend B the Payment's backend
\* field holds B's name.
C5_BackendRecorded ==
    \A r \in Requests :
        req[r].initiated \in {"None", "redirect"} =>
           /\ req[r].payment.backend = req[r].method
           /\ req[r].pc = "done" /\ req[r].response = "redirect_gateway" =>
                 db[req[r].pk].backend = req[r].method

\* C6: complete on a Payment whose state is not PENDING raises
\* InvalidState without invoking collect and changes nothing: no field of
\* the Payment, no stored row, no invoice, no notification.
C6_CompleteNotPending ==
    [][\A r \in Requests :
          (AtComplete(r) /\ req[r].payment.state # Payment_PENDING
              /\ req'[r] # req[r]) =>
             /\ req'[r].completed = "InvalidState"
             /\ req'[r].response = "InvalidState"
             /\ req'[r].collected = "none"
             /\ req'[r].payment = req[r].payment
             /\ req'[r].invoices = 0 /\ req'[r].mails = 0
             /\ db' = db /\ store' = store /\ outbox' = outbox
      ]_vars

\* C6 witness: a completion callback found the payment, read again under
\* the lock, no longer PENDING, and complete raised InvalidState.
C6_Witness ==
    \E r \in Requests :
        /\ req[r].kind = "complete"
        /\ req[r].completed = "InvalidState"
        /\ req[r].payment.state \in {Payment_ACCEPTED, Payment_REJECTED}

\* C7: complete returns the boolean collect produced: True and the
\* Payment is stored ACCEPTED, or False and the Payment is stored
\* REJECTED; a complete that returns leaves no other state.
C7_CompleteReturnsCollect ==
    [][\A r \in Requests :
          (AtComplete(r) /\ req'[r].completed \in {"True", "False"}) =>
             /\ req[r].payment.state = Payment_PENDING
             /\ req'[r].completed = req'[r].collected
             /\ req'[r].completed = "True" <=>
                   db'[req[r].pk].state = Payment_ACCEPTED
             /\ req'[r].completed = "False" <=>
                   db'[req[r].pk].state = Payment_REJECTED
             /\ req'[r].payment.state = db'[req[r].pk].state
      ]_vars

\* C7 witness: the gateway's callback reported a cancelled payment,
\* collect and complete returned False and the Payment is stored REJECTED.
C7_Witness ==
    \E r \in Requests :
        /\ req[r].kind = "complete"
        /\ req[r].completed = "False" /\ req[r].collected = "False"
        /\ req[r].payment.details.reject_reason = "Payment cancelled"
        /\ db[req[r].pk].state = Payment_REJECTED

\* C8: when complete accepts a Payment, recurring becomes "" if the
\* completing backend has no recurring capability and stays as it was if
\* it has; so a Payment accepted with a recurring period was accepted by
\* a recurring-capable backend.
C8_RecurringCleared ==
    [][\A r \in Requests :
          (AtComplete(r) /\ req'[r].completed = "True") =>
             /\ db'[req[r].pk].state = Payment_ACCEPTED
             /\ db'[req[r].pk].recurring =
                   IF BACKENDS(req[r].method).recurring
                   THEN req[r].payment.recurring ELSE ""
             /\ db'[req[r].pk].recurring # "" =>
                   BACKENDS(req[r].method).recurring
      ]_vars

\* C8 witness: an annual payment was accepted by a backend without
\* recurring capability and is stored as one-time.
C8_Witness ==
    \E r \in Requests :
        /\ req[r].completed = "True"
        /\ ~BACKENDS(req[r].method).recurring
        /\ req[r].object.recurring = "y"
        /\ db[req[r].pk].state = Payment_ACCEPTED
        /\ db[req[r].pk].recurring = ""

\* The invoices generated and committed to the store, and the e-mails
\* sent, for payment pk.
InvoicesOf(pk) ==
    {i \in DOMAIN store : store[i].payment = pk /\ store[i].committed}

MailsOf(pk) == {i \in DOMAIN outbox : outbox[i].payment = pk}

\* C9: of the completion attempts on a PENDING Payment only the one that
\* performs the PENDING -> ACCEPTED/REJECTED transition has a side effect:
\* an attempt that leaves the stored state as it was generates no invoice
\* and sends no notification, so that at most one invoice and one
\* notification exist per Payment.
C9_OnlyWinnerActs ==
    [][\A r \in Requests :
          (/\ req[r].kind = "complete" /\ AtComplete(r)
           /\ req'[r].pc = "done"
           /\ db'[req[r].pk].state = db[req[r].pk].state) =>
             /\ InvoicesOf(req[r].pk)' = InvoicesOf(req[r].pk)
             /\ MailsOf(req[r].pk)' = MailsOf(req[r].pk)
      ]_vars

\* C10: a completion callback that constructed its backend and found the
\* payment already completed (it did not collect) is answered with the
\* redirect to the origin.
C10_LoserRedirected ==
    \A r \in Requests :
        (/\ req[r].kind = "complete" /\ req[r].pc = "done"
         /\ req[r].object.state = Payment_PENDING
         /\ req[r].method # NoKey
         /\ req[r].payment.state # Payment_PENDING
         /\ req[r].collected = "none") =>
           req[r].response = "redirect_origin"

\* A request arrives at worker r in this step.
Arrives(r, kind) == req[r].pc = "idle" /\ req'[r].kind = kind

\* Sequential use: nothing was committed to the payment of request r
\* between the read of get_object and the lock of the backend.
Sequential(r) == req[r].object = db[req[r].pk]

\* C11: in sequential use the web layer invokes no lifecycle method on a
\* Payment in the wrong state.  PaymentView answers a Payment that is not
\* NEW with the redirect to the origin, without initiate; CompleteView
\* answers a NEW Payment with the redirect to the payment page and one
\* that is neither NEW nor PENDING with the redirect to the origin,
\* without complete; such a request changes nothing.  When initiate runs
\* the Payment is NEW, when complete runs it is PENDING.
C11_WebLayerChecksState ==
    [][\A r \in Requests :
          /\ (Arrives(r, "payment")
                 /\ db[req'[r].pk].state # Payment_NEW) =>
                /\ req'[r].pc = "done"
                /\ req'[r].response = "redirect_origin"
                /\ req'[r].initiated = "none" /\ req'[r].performs = 0
                /\ db' = db /\ store' = store /\ outbox' = outbox
          /\ (Arrives(r, "complete")
                 /\ db[req'[r].pk].state # Payment_PENDING) =>
                /\ req'[r].pc = "done"
                /\ req'[r].response =
                      IF db[req'[r].pk].state = Payment_NEW
                      THEN "redirect_payment" ELSE "redirect_origin"
                /\ req'[r].completed = "none" /\ req'[r].collected = "none"
                /\ db' = db /\ store' = store /\ outbox' = outbox
          /\ (AtInitiate(r) /\ Sequential(r)) =>
                req[r].payment.state = Payment_NEW
          /\ (AtComplete(r) /\ (req[r].kind = "payment" \/ Sequential(r))) =>
                req[r].payment.state = Payment_PENDING
      ]_vars

\* C11 witness: the gateway's callback accepted a payment, and the
\* callback delivered again was answered with the redirect to the origin
\* without complete being called.
C11_Witness ==
    \E r \in Requests :
        /\ req[r].kind = "complete" /\ req[r].pc = "done"
        /\ req[r].object.state = Payment_ACCEPTED
        /\ req[r].object.details.gateway
        /\ req[r].response = "redirect_origin"
        /\ req[r].completed = "none"
        /\ db[req[r].pk] = req[r].object

\* The renewals of payment pk among the rows, oldest first, and whether
\* the backend on file for payment pk can still be used.
RenewalsOf(rows, pk) == {i \in DOMAIN rows : rows[i].repeat = pk}

BackendAvailable(pk) ==
    /\ db[pk].backend \in BackendNames
    /\ BACKENDS(db[pk].backend).debug => settings.PAYMENT_DEBUG

\* The failure streak of payment pk: going back from the newest of the
\* first i rows, the REJECTED renewals met before a PROCESSED one.
RECURSIVE Streak(_, _, _)
Streak(rows, pk, i) ==
    IF i = 0 THEN 0
    ELSE IF rows[i].repeat # pk THEN Streak(rows, pk, i - 1)
    ELSE IF rows[i].state = Payment_PROCESSED THEN 0
    ELSE IF rows[i].state = Payment_REJECTED THEN 1 + Streak(rows, pk, i - 1)
    ELSE Streak(rows, pk, i - 1)

\* C12: with an available backend, a call of repeat_payment on an
\* original whose chain has 3 or more REJECTED renewals since the last
\* PROCESSED one (since the start when none is PROCESSED) returns False
\* and creates no row; with fewer than 3 it creates one renewal of the
\* original and does not return False.
C12_ThreeFailuresRefuse ==
    [][BackendAvailable(Original) =>
          IF Streak(db, Original, Len(db)) >= 3
          THEN /\ Len(db') = Len(db)
               /\ returned' # returned =>
                     /\ returned'.value = "False"
                     /\ db' = db /\ posts' = posts
          ELSE returned' # returned =>
                     /\ returned'.value # "False"
                     /\ Len(db') = Len(db) + 1
                     /\ db'[Len(db')].repeat = Original
                     /\ \A i \in DOMAIN db : db'[i] = db[i]
      ]_vars

\* C12 witness: three renewals were created and rejected, none was
\* processed, and the fourth call returned False.
C12_Witness ==
    /\ BackendAvailable(Original)
    /\ Len(db) = 4
    /\ \A i \in 2..4 : db[i].repeat = Original /\ db[i].state = Payment_REJECTED
    /\ returned = [pk |-> Original, kwargs |-> NoExtra, value |-> "False"]

\* The newest PROCESSED renewal of payment pk (0 when there is none) and
\* the REJECTED renewals before and after it.
LastGood(rows, pk) ==
    LET good == {i \in RenewalsOf(rows, pk) : rows[i].state = Payment_PROCESSED}
    IN  IF good = {} THEN 0 ELSE Maximum(good)

RejectedBefore(rows, pk) ==
    {i \in RenewalsOf(rows, pk) :
        rows[i].state = Payment_REJECTED /\ i < LastGood(rows, pk)}

RejectedAfter(rows, pk) ==
    {i \in RenewalsOf(rows, pk) :
        rows[i].state = Payment_REJECTED /\ i > LastGood(rows, pk)}

\* C13: once a renewal is PROCESSED the REJECTED renewals before it are
\* not counted any more: whatever their number, a call of repeat_payment
\* returns False exactly when 3 or more renewals were REJECTED after the
\* newest PROCESSED one, and creates a renewal otherwise.
C13_ProcessedResetsCounter ==
    [][(/\ BackendAvailable(Original)
        /\ LastGood(db, Original) # 0
        /\ returned' # returned) =>
          /\ returned'.value = "False" <=>
                Cardinality(RejectedAfter(db, Original)) >= 3
          /\ returned'.value # "False" <=> Len(db') = Len(db) + 1
      ]_vars

\* C13 witness: two renewals were rejected and the third processed; with
\* two more rejected the sixth renewal was still created, and after its
\* rejection the call returned False.
C13_Witness ==
    /\ BackendAvailable(Original)
    /\ Len(db) = 7
    /\ \A i \in {2, 3, 5, 6, 7} : db[i].state = Payment_REJECTED
    /\ db[4].state = Payment_PROCESSED
    /\ Cardinality(RejectedBefore(db, Original)) = 2
    /\ returned = [pk |-> Original, kwargs |-> NoExtra, value |-> "False"]

\* C14: repeat_payment on a Payment whose backend name is not registered,
\* or names a debug backend while PAYMENT_DEBUG is off, returns False (it
\* raises nothing), creates no row and sends no trigger.
C14_RetiredBackendRefused ==
    [][~BackendAvailable(Original) =>
          /\ Len(db') = Len(db)
          /\ posts' = posts
          /\ returned' # returned =>
                /\ returned'.value = "False"
                /\ db' = db
      ]_vars

\* C14 witness: the original was paid with the debug backend pay, debug
\* mode is off now, and the call returned False.
C14_Witness ==
    /\ db[Original].backend = "pay"
    /\ ~settings.PAYMENT_DEBUG
    /\ returned.pk = Original /\ returned.value = "False"
    /\ Len(db) = 1 /\ posts = {}

\* C15: a row created by repeat_payment is NEW, has the amount, the
\* description, amount_fixed and the customer of the original, no
\* recurring period, repeat pointing to the original, and as extra the
\* extra of the original with every key the caller passed replaced by the
\* caller's value.
C15_RenewalFields ==
    [][Len(db') > Len(db) =>
          LET self == db[returned'.pk]
              payment == db'[Len(db')]
          IN  /\ Len(db') = Len(db) + 1
              /\ payment.state = Payment_NEW
              /\ payment.amount = self.amount
              /\ payment.description = self.description
              /\ payment.amount_fixed = self.amount_fixed
              /\ payment.customer = self.customer
              /\ payment.recurring = ""
              /\ payment.repeat = returned'.pk
              /\ \A k \in ExtraKeys :
                    payment.extra[k] =
                       IF returned'.kwargs[k] # NoKey
                       THEN returned'.kwargs[k] ELSE self.extra[k]
      ]_vars

\* C15 witness: a renewal of an original with a fixed amount of 250 was
\* created with one key of the original's extra overridden and the other
\* kept.
C15_Witness ==
    /\ Len(db) >= 2
    /\ db[Original].amount = 250 /\ db[Original].amount_fixed
    /\ db[Original].customer = 2
    /\ db[Original].extra = [reward |-> "1", period |-> "1"]
    /\ returned.kwargs = [reward |-> "2", period |-> NoKey]
    /\ db[Len(db)].extra = [reward |-> "2", period |-> "1"]
    /\ db[Len(db)].amount = 250 /\ db[Len(db)].recurring = ""

\* A call of repeat_payment was made in this step.
Called == returned' # returned \/ Len(db') # Len(db)

\* C16: the row repeat_payment creates is committed before the trigger is
\* sent: a call whose trigger fails leaves exactly one new Payment, with
\* repeat pointing to the original, and no step removes a renewal.
C16_RenewalSurvivesTrigger ==
    [][/\ Len(db') >= Len(db)
       /\ \A i \in DOMAIN db : db'[i].repeat = db[i].repeat
       /\ (Called /\ returned'.value = "ConnectionError") =>
             /\ Len(db') = Len(db) + 1
             /\ db'[Len(db')].repeat = returned'.pk
             /\ \A i \in DOMAIN db : db'[i] = db[i]
      ]_vars

\* C16 witness: the trigger of the first renewal failed and the renewal,
\* NEW, is in storage.
C16_Witness ==
    /\ returned.value = "ConnectionError"
    /\ Len(db) = 2
    /\ db[2].repeat = Original /\ db[2].state = Payment_NEW
    /\ posts = {}

\* C17: a call of repeat_payment does not raise because the remote
\* request failed.
C17_TriggerFailureNotRaised ==
    returned.value # "ConnectionError"

\* C18: the trigger repeat_payment sends addresses a renewal, the
\* Payment the call created: the uuid in its URL is that of a row with
\* repeat set.
C18_TriggerAddressesRenewal ==
    \A post \in posts :
        /\ post.url.uuid \in DOMAIN db
        /\ db[post.url.uuid].repeat # NoPayment
        /\ post.secret = settings.PAYMENT_SECRET

\* C19: an original has at most one unfinished (NEW or PENDING) renewal
\* at any time.
C19_OneUnfinishedRenewal ==
    Cardinality({i \in RenewalsOf(db, Original) :
                    db[i].state \in {Payment_NEW, Payment_PENDING}}) <= 1

\* C20: when generate_invoice raises in the success path of complete the
\* exception leaves complete and the request; the row stored for the
\* Payment is the one stored before complete ran, PENDING, not ACCEPTED
\* and without an invoice, and no notification is sent.
C20_InvoiceFailurePropagates ==
    [][\A r \in Requests :
          (AtComplete(r) /\ req'[r].pc = "done"
              /\ req'[r].collected = "True"
              /\ req'[r].invoices > 0
              /\ \E i \in DOMAIN store' \ DOMAIN store :
                    ~store'[i].committed) =>
             /\ req'[r].completed = "CalledProcessError"
             /\ req'[r].response = "CalledProcessError"
             /\ (IF req[r].pc = "initiated" THEN TxRow(r) ELSE db[req[r].pk]).state
                    = Payment_PENDING
             /\ db' = db
             /\ db'[req[r].pk].state # Payment_ACCEPTED
             /\ req[r].kind = "complete" =>
                   db'[req[r].pk].state = Payment_PENDING
             /\ db'[req[r].pk].invoice = NoInvoice
             /\ outbox' = outbox /\ req'[r].mails = 0
      ]_vars

\* C20 witness: the gateway's callback was collected as paid, the invoice
\* could not be generated, and the payment is stored PENDING with no
\* invoice.
C20_Witness ==
    \E r \in Requests :
        /\ req[r].kind = "complete" /\ req[r].pc = "done"
        /\ req[r].collected = "True"
        /\ req[r].completed = "CalledProcessError"
        /\ db[req[r].pk].state = Payment_PENDING
        /\ db[req[r].pk].invoice = NoInvoice
        /\ \E i \in DOMAIN store :
              store[i].payment = req[r].pk /\ ~store[i].committed
        /\ MailsOf(req[r].pk) = {}

\* C21: a Payment that complete accepted has been notified of; with
\* invoicing disabled (PAYMENT_FAKTURACE None) its invoice is empty and
\* the invoice store is untouched, with invoicing enabled it carries the
\* identifier of an invoice committed to the store for it.
C21_InvoiceIffEnabled ==
    /\ ~settings.PAYMENT_FAKTURACE => store = <<>>
    /\ \A pk \in DOMAIN db :
          db[pk].state \in {Payment_ACCEPTED, Payment_PROCESSED} =>
             /\ \E i \in MailsOf(pk) :
                   /\ outbox[i].kind = "payment"
                   /\ outbox[i].invoice = db[pk].invoice
             /\ IF settings.PAYMENT_FAKTURACE
                THEN /\ db[pk].invoice # NoInvoice
                     /\ \E i \in InvoicesOf(pk) :
                           store[i].invoiceid = db[pk].invoice
                ELSE db[pk].invoice = NoInvoice

\* C21 witness: with invoicing disabled a completion request accepted a
\* payment; the notification was sent and nothing was invoiced.
C21_Witness ==
    /\ ~settings.PAYMENT_FAKTURACE
    /\ store = <<>>
    /\ \E r \in Requests :
          /\ req[r].pc = "done" /\ req[r].completed = "True"
          /\ req[r].mails = 1 /\ req[r].invoices = 0
          /\ db[req[r].pk].state = Payment_ACCEPTED
          /\ db[req[r].pk].invoice = NoInvoice

\* C22: a completion request in which the notification could not be
\* sent leaves the Payment stored in the state the request produced,
\* ACCEPTED or REJECTED (PROCESSED when it was processed since).
C22_MailFailureKeepsTransition ==
    \A r \in Requests :
        (req[r].pc = "done" /\ req[r].completed = "SMTPException") =>
           db[req[r].pk].state \in
              {Payment_ACCEPTED, Payment_REJECTED, Payment_PROCESSED}

\* C23: every REJECTED Payment has a reject reason recorded in its
\* details.
C23_RejectReasonRecorded ==
    \A pk \in DOMAIN db :
        db[pk].state = Payment_REJECTED =>
           db[pk].details.reject_reason # NoKey

\* The callback request r was completed with is one the gateway sends
\* for a paid payment: signed, for this payment, with status 2.
PaidCallback(r) ==
    /\ req[r].request.signature
    /\ req[r].request.merchant = req[r].pk
    /\ req[r].request.status = 2

\* C24: a completion callback of a ThePay backend on a PENDING Payment
\* is collected as paid, and can end accepted, iff it is signed, carries
\* the Payment's own reference and has status 2; with any other callback
\* complete returns False and the Payment is stored REJECTED.
C24_ThePayAcceptsIffPaid ==
    \A r \in Requests :
        (/\ req[r].kind = "complete" /\ req[r].pc = "done"
         /\ req[r].method \in {"thepay-card", "thepay-bitcoin"}
         /\ req[r].collected # "none") =>
           /\ req[r].collected = "True" <=> PaidCallback(r)
           /\ req[r].completed = "True" => PaidCallback(r)
           /\ ~PaidCallback(r) =>
                 /\ req[r].completed = "False"
                 /\ db[req[r].pk].state = Payment_REJECTED

\* C25: the invoice store holds no artifact of an invoice that was not
\* committed as a whole.
C25_NoPartialInvoice ==
    \A i \in DOMAIN store : store[i].committed

\* The customer's billing information is complete and the VAT ID, if
\* there is one, validates.
CustomerReady ==
    /\ ~customer.is_empty
    /\ customer.vat # "" => ~validate_vatin_fails(customer.vat)

\* C26: a submission of the payment form for a NEW Payment whose customer
\* is not ready is answered with the redirect to the billing information
\* step, without any backend method, and the Payment stays NEW; no
\* request constructs a backend or runs initiate or complete for a
\* customer that is not ready; a saved billing information form makes the
\* customer ready and sends the user back to the payment page.
C26_CustomerMustBeReady ==
    [][\A r \in Requests :
          /\ (Arrives(r, "payment")
                 /\ db[req'[r].pk].state = Payment_NEW
                 /\ ~CustomerReady) =>
                /\ req'[r].pc = "done"
                /\ req'[r].response = "redirect_customer"
                /\ req'[r].initiated = "none" /\ req'[r].completed = "none"
                /\ req'[r].performs = 0
                /\ db' = db /\ store' = store /\ outbox' = outbox
          /\ (req[r].kind = "payment"
                 /\ req[r].pc \in {"backend", "locked", "initiated"}) =>
                CustomerReady
          /\ Arrives(r, "customer") =>
                /\ req'[r].response = "redirect_payment"
                /\ CustomerReady'
                /\ db' = db
      ]_vars

\* C26 witness: the payment form was submitted while the VAT ID on file
\* did not validate and was answered with the redirect to the billing
\* information step; then the billing information was saved.
C26_Witness ==
    \E r, q \in Requests :
        /\ req[r].kind = "payment" /\ req[r].pc = "done"
        /\ req[r].response = "redirect_customer"
        /\ req[r].performs = 0
        /\ db[req[r].pk].state = Payment_NEW
        /\ req[q].kind = "customer"
        /\ req[q].response = "redirect_payment"
        /\ CustomerReady

\* The backends whose perform sends the user to a gateway.
AsyncBackends == {"pending", "thepay-card", "thepay-bitcoin"}

\* C27: initiate of a NEW Payment through an asynchronous backend ends
\* the request with the redirect to the gateway and the Payment stored
\* PENDING, complete not being called in that request; a stored PENDING
\* Payment becomes ACCEPTED only in a step of a completion callback for
\* it.
C27_AsyncWaitsForCallback ==
    [][/\ \A r \in Requests :
             (/\ AtInitiate(r) /\ req'[r] # req[r]
              /\ req[r].method \in AsyncBackends
              /\ req[r].payment.state = Payment_NEW
              /\ req[r].payment.repeat # NoPayment =>
                    BACKENDS(req[r].method).recurring) =>
                /\ req'[r].pc = "done"
                /\ req'[r].response = "redirect_gateway"
                /\ db'[req[r].pk].state = Payment_PENDING
                /\ req'[r].completed = "none" /\ req'[r].collected = "none"
                /\ store' = store /\ outbox' = outbox
       /\ \A pk \in DOMAIN db :
             (db[pk].state = Payment_PENDING
                 /\ db'[pk].state = Payment_ACCEPTED) =>
                \E r \in Requests :
                    /\ req[r].kind = "complete" /\ req[r].pk = pk
                    /\ AtComplete(r)
                    /\ req'[r].completed = "True"
      ]_vars

\* C27 witness: a payment initiated through the pending backend was
\* accepted by a completion callback.
C27_Witness ==
    \E r \in Requests :
        /\ req[r].kind = "complete" /\ req[r].pc = "done"
        /\ req[r].completed = "True"
        /\ req[r].object.state = Payment_PENDING
        /\ req[r].object.details.backend = "pending"
        /\ db[req[r].pk].state = Payment_ACCEPTED

\* C28: a submission of the payment form through pay or reject whose
\* initiate returned None (and whose invoice, if any, was generated)
\* ends with the redirect to the origin and the Payment stored ACCEPTED
\* (pay) or REJECTED (reject), not NEW or PENDING.
C28_SyncSubmissionSettles ==
    \A r \in Requests :
        (/\ req[r].kind = "payment" /\ req[r].pc = "done"
         /\ req[r].method \in {"pay", "reject"}
         /\ req[r].initiated = "None"
         /\ req[r].completed # "CalledProcessError") =>
           /\ req[r].response = "redirect_origin"
           /\ req[r].method = "pay" =>
                 db[req[r].pk].state \in {Payment_ACCEPTED, Payment_PROCESSED}
           /\ req[r].method = "reject" =>
                 db[req[r].pk].state = Payment_REJECTED

\* The amounts were computed for a customer and a payment.
Quoted == returned.value = "quote"

\* C29: a customer needs VAT iff the VAT ID starts with CZ (in either
\* case) or the customer has no VAT ID and a country of the EU; the rate
\* is 21 when VAT is needed and 0 otherwise.
C29_NeedsVat ==
    Quoted =>
       LET cust == returned.customer
           czech == cust.vat \in {"CZ8003280318", "cz8003280318", "CZ8003280317"}
           enduser == cust.vat = NoKey /\ cust.country \in {"CZ", "DE"}
       IN  /\ returned.needs_vat <=> (czech \/ enduser)
           /\ returned.vat_rate = IF czech \/ enduser THEN 21 ELSE 0
           /\ (cust.vat \in {"DE123456789", "US123456789"}) =>
                 returned.vat_rate = 0
           /\ (cust.country \in {NoKey, "US"} /\ ~czech) =>
                 returned.vat_rate = 0

\* C29 witness: a customer outside the EU with a Czech VAT ID was
\* quoted, with VAT.
C29_Witness ==
    /\ Quoted
    /\ returned.customer.country = "US"
    /\ returned.customer.vat = "CZ8003280318"
    /\ returned.needs_vat /\ returned.vat_rate = 21

\* C30: vat_amount is amount * (100 + vat_rate) / 100 when the customer
\* needs VAT and the amount is not fixed, and amount otherwise;
\* amount_without_vat is 100 * amount / (100 + vat_rate) when the
\* customer needs VAT and the amount is fixed, and amount otherwise.
\* Amount 100 at rate 21 gives 121.00, fixed amount 121 gives 100.
C30_VatAmounts ==
    Quoted =>
       LET amount == returned.payment.amount
           fixed == returned.payment.amount_fixed
           rate == returned.vat_rate
           without == returned.amount_without_vat
       IN  /\ returned.vat_amount =
                 IF returned.needs_vat /\ ~fixed
                 THEN amount * (100 + rate) ELSE 100 * amount
           /\ IF returned.needs_vat /\ fixed
              THEN without.num * (100 + rate) = 100 * amount * without.den
              ELSE without.num = amount * without.den
           /\ (amount = 100 /\ rate = 21 /\ ~fixed) =>
                 returned.vat_amount = 12100
           /\ (amount = 121 /\ rate = 21 /\ fixed) =>
                 without.num = 100 * without.den

\* C30 witness: 100 was quoted as 121.00 with VAT to a customer who
\* needs VAT.
C30_Witness ==
    /\ Quoted
    /\ returned.needs_vat
    /\ returned.payment.amount = 100 /\ ~returned.payment.amount_fixed
    /\ returned.vat_amount = 12100
    /\ returned.amount_without_vat = [num |-> 100, den |-> 1]

\* C31: for a customer who needs VAT, amount_without_vat of a payment
\* with amount_fixed that carries the vat_amount of a non-fixed amount a
\* is a, to within half a hundredth; the grossed value is more than a.
C31_RoundTrip ==
    (returned.value = "roundtrip" /\ returned.needs_vat) =>
       LET a == returned.payment.amount
           back == returned.recovered
           diff == back.num - 100 * a * back.den
       IN  /\ returned.grossed > 100 * a
           /\ 2 * diff <= back.den
           /\ 2 * (0 - diff) <= back.den

\* C31 witness: 100 was grossed to 121.00 for a customer who needs VAT
\* and 100 was recovered from it.
C31_Witness ==
    /\ returned.value = "roundtrip"
    /\ returned.needs_vat
    /\ returned.payment.amount = 100
    /\ returned.grossed = 12100
    /\ returned.recovered.num = 100 * 100 * returned.recovered.den

\* The VAT ID and the country posted do not go together: the VAT ID is
\* of another country than the one posted.
Mismatch(data) ==
    \/ data.vat = "CZ8003280318" /\ data.country # "CZ"
    \/ data.vat = "DE123456789" /\ data.country # "DE"

\* C32: a billing information form for a NEW Payment fails validation,
\* with the error on the country field, iff a VAT ID is posted whose
\* country prefix is not the country posted; it passes, and is saved,
\* without a VAT ID or with a matching one.  A failed form changes
\* neither the customer stored nor any Payment, invoice or mail, so the
\* customer stored never has a VAT ID of another country, whatever
\* payment request runs.
C32_CountryMustMatchVat ==
    [][/\ \A r \in Requests :
             (Arrives(r, "customer")
                 /\ db[req'[r].pk].state = Payment_NEW) =>
                IF Mismatch(req'[r].data)
                THEN /\ req'[r].errors = "country"
                     /\ req'[r].response = "form_invalid"
                     /\ customer' = customer
                     /\ db' = db /\ store' = store /\ outbox' = outbox
                ELSE /\ req'[r].errors = NoKey
                     /\ req'[r].response = "redirect_payment"
                     /\ customer'.country = req'[r].data.country
                     /\ customer'.vat = req'[r].data.vat
                     /\ db' = db
       /\ ~Mismatch(customer')
      ]_vars

\* C32 witness: the customer with country CZ and VAT ID CZ8003280318
\* posted the form again with country DE; the form was refused with the
\* error on country and the customer is stored as before.
C32_Witness ==
    \E r \in Requests :
        /\ req[r].kind = "customer" /\ req[r].pc = "done"
        /\ req[r].data = [country |-> "DE", vat |-> "CZ8003280318"]
        /\ req[r].errors = "country"
        /\ req[r].response = "form_invalid"
        /\ customer.country = "CZ" /\ customer.vat = "CZ8003280318"
        /\ db[req[r].pk].state = Payment_NEW

\* C33: get_backend(name) returns a backend iff a backend of that name
\* is in list_backends(): for pay, reject and pending exactly when
\* PAYMENT_DEBUG is on, for thepay-card and thepay-bitcoin always, and
\* for a name that is not registered never (KeyError).  For the method
\* the method form accepted get_backend does not raise.
C33_RegistryConsistent ==
    /\ returned.value = "lookup" =>
          /\ returned.found <=> returned.listed
          /\ returned.name \in {"pay", "reject", "pending"} =>
                (returned.found <=> settings.PAYMENT_DEBUG)
          /\ returned.name \in {"thepay-card", "thepay-bitcoin"} =>
                returned.found
          /\ returned.name \in {NoKey, "paypal"} => ~returned.found
    /\ \A r \in Requests :
          (req[r].kind = "payment" /\ req[r].method # NoKey) =>
             /\ req[r].method \in {"thepay-card", "thepay-bitcoin"}
                   \/ settings.PAYMENT_DEBUG
             /\ ~get_backend_KeyError(req[r].method, settings)

\* C33 witness: with debug mode off the debug backend pay was looked
\* up: it is neither obtainable nor listed.
C33_Witness ==
    /\ ~settings.PAYMENT_DEBUG
    /\ returned.value = "lookup"
    /\ returned.name = "pay"
    /\ ~returned.found /\ ~returned.listed

\* The failure streak of the original has reached 3, the third newest
\* of the rejections counted, and the renewals marked PROCESSED in this
\* step.
Terminated(rows) == Cardinality(RejectedAfter(rows, Original)) >= 3

ThirdNewest(S) == CHOOSE i \in S : Cardinality({j \in S : j > i}) = 2

BecomesProcessed ==
    {i \in DOMAIN db :
        db[i].state # Payment_PROCESSED /\ db'[i].state = Payment_PROCESSED}

\* C34 as stated: a chain whose failure streak has reached 3 stays
\* terminated, a call of repeat_payment returning False and changing no
\* row, unless a renewal newer than all the rejections of the streak
\* becomes PROCESSED.
C34_TerminatedUnlessNewerProcessed ==
    [][(/\ Terminated(db)
        /\ \A i \in BecomesProcessed :
              i <= Maximum(RejectedAfter(db, Original))) =>
          /\ Terminated(db')
          /\ Called => (returned'.value = "False" /\ db' = db)
      ]_vars

\* C34, corrected: a chain whose failure streak has reached 3 stays
\* terminated unless a renewal newer than the third newest rejection of
\* the streak becomes PROCESSED; while it is terminated every call of
\* repeat_payment on the original returns False, creates no row, sends
\* no trigger and changes no row.  No call of repeat_payment changes a
\* row that exists.
C34_ChainStaysTerminated ==
    [][/\ (/\ Terminated(db)
           /\ \A i \in BecomesProcessed :
                 i < ThirdNewest(RejectedAfter(db, Original))) =>
             Terminated(db')
       /\ (Terminated(db) /\ Called) =>
             /\ returned'.value = "False"
             /\ db' = db /\ posts' = posts
       /\ Called => \A i \in DOMAIN db : db'[i] = db[i]
      ]_vars

\* C34 witness: a renewal accepted before the three rejections of the
\* streak was marked PROCESSED, an older rejection is no longer counted,
\* and the call on the terminated chain returned False.
C34_Witness ==
    /\ BackendAvailable(Original)
    /\ Len(db) = 6
    /\ db[2].state = Payment_REJECTED
    /\ db[3].state = Payment_PROCESSED
    /\ \A i \in 4..6 : db[i].state = Payment_REJECTED
    /\ RejectedAfter(db, Original) = {4, 5, 6}
    /\ returned = [pk |-> Original, kwargs |-> NoExtra, value |-> "False"]

\* The renewals of the original that are REJECTED and newer than every
\* PROCESSED renewal of it.
CountedFailures(rows) ==
    {i \in DOMAIN rows :
        /\ rows[i].repeat = Original
        /\ rows[i].state = Payment_REJECTED
        /\ \A j \in DOMAIN rows :
              (rows[j].repeat = Original /\ rows[j].state = Payment_PROCESSED)
                 => j < i}

\* C35: a call of repeat_payment returns False exactly when 3 or more
\* renewals of the original are REJECTED and were created after its
\* most recently created PROCESSED renewal (all REJECTED ones when none
\* is PROCESSED), and creates a renewal otherwise; renewals that are
\* NEW, PENDING or ACCEPTED make no difference wherever they stand, and
\* neither does the order in which the renewals were completed.
C35_StreakByCreation ==
    [][Called =>
          /\ returned'.value = "False" <=>
                Cardinality(CountedFailures(db)) >= 3
          /\ returned'.value # "False" <=> Len(db') = Len(db) + 1
          /\ \A i \in DOMAIN db \ {Original} :
                db[i].state \in {Payment_NEW, Payment_PENDING, Payment_ACCEPTED}
                   => \A t \in {Payment_NEW, Payment_PENDING, Payment_ACCEPTED} :
                         repeat_failures([db EXCEPT ![i].state = t], Original)
                            = repeat_failures(db, Original)
      ]_vars

\* C35 witness: of the five renewals the first, third and fifth are
\* REJECTED, the second ACCEPTED and the fourth PENDING, none is
\* PROCESSED, and the call returned False.
C35_Witness ==
    /\ Len(db) = 6
    /\ db[2].state = Payment_REJECTED
    /\ db[3].state = Payment_ACCEPTED
    /\ db[4].state = Payment_REJECTED
    /\ db[5].state = Payment_PENDING
    /\ db[6].state = Payment_REJECTED
    /\ returned = [pk |-> Original, kwargs |-> NoExtra, value |-> "False"]

\* Request r, a disable_repeat, saves the payment in this step.
Saves(r) ==
    req[r].kind = "disable" /\ req[r].pc = "fetched" /\ req'[r].pc = "done"

\* C36: disable_repeat changes only the recurring field of the Payment:
\* the state, the invoice and the details stored are after its save what
\* they were before it, also when a state transition of the Payment was
\* committed since disable_repeat read it.
C36_DisableRepeatOnlyRecurring ==
    [][\A r \in Requests :
          Saves(r) =>
             /\ db'[req[r].pk].recurring = ""
             /\ db'[req[r].pk].state = db[req[r].pk].state
             /\ db'[req[r].pk].invoice = db[req[r].pk].invoice
             /\ db'[req[r].pk].details = db[req[r].pk].details
      ]_vars

\* C36 in sequential use: a disable_repeat whose payment was not changed
\* between its read and its save changes only the recurring field.
C36_SequentialDisableRepeat ==
    [][\A r \in Requests :
          (Saves(r) /\ Sequential(r)) =>
             db' = [db EXCEPT ![req[r].pk].recurring = ""]
      ]_vars

\* C37: a Payment that holds an invoice identifier is ACCEPTED or
\* PROCESSED, as stored and as the object of a backend; and whatever the
\* invoice store holds was written for a Payment that is stored ACCEPTED
\* or PROCESSED, never for one that is NEW, PENDING or REJECTED.
C37_InvoiceOnlyForAccepted ==
    /\ \A pk \in DOMAIN db :
          db[pk].invoice # NoInvoice =>
             db[pk].state \in {Payment_ACCEPTED, Payment_PROCESSED}
    /\ \A r \in Requests :
          req[r].payment.invoice # NoInvoice =>
             req[r].payment.state \in {Payment_ACCEPTED, Payment_PROCESSED}
    /\ \A i \in DOMAIN store :
          db[store[i].payment].state \in {Payment_ACCEPTED, Payment_PROCESSED}

\* C37, the rows alone: a stored Payment that holds an invoice
\* identifier is ACCEPTED or PROCESSED.
C37_StoredInvoiceOnlyForAccepted ==
    \A pk \in DOMAIN db :
        db[pk].invoice # NoInvoice =>
           db[pk].state \in {Payment_ACCEPTED, Payment_PROCESSED}

\* Submission q, which holds the row lock and has invoked perform, ends
\* in this step while submission r for the same Payment waits for the
\* lock.
EndsBefore(q, r) ==
    /\ q # r
    /\ req[q].kind = "payment" /\ req[r].kind = "payment"
    /\ req[r].pk = req[q].pk
    /\ req[q].pc \in {"locked", "initiated"} /\ req'[q].pc = "done"
    /\ req'[q].performs = 1
    /\ req[r].pc = "backend"

\* C38: of two concurrent submissions of the payment form for the same
\* NEW Payment only the one that gets the row lock first invokes
\* perform: when it ends (its invoice, if any, generated) the Payment is
\* stored in a state other than NEW, and the submission that gets the
\* lock after it raises InvalidState in initiate without invoking perform
\* and without changing anything.
C38_PerformAtMostOnce ==
    [][\A q, r \in Requests :
          /\ (EndsBefore(q, r) /\ req'[q].completed # "CalledProcessError") =>
                db'[req[q].pk].state # Payment_NEW
          /\ (AtInitiate(r) /\ req'[r] # req[r]
                 /\ req[r].object.state = Payment_NEW
                 /\ db[req[r].pk].state # Payment_NEW) =>
                /\ req'[r].initiated = "InvalidState"
                /\ req'[r].performs = 0
                /\ req'[r].payment = req[r].payment
                /\ db' = db /\ store' = store /\ outbox' = outbox
      ]_vars

\* A stored Payment that was initiated and not yet completed, and one
\* that was completed.
Initiated(pk) == pk \in DOMAIN db /\ db[pk].state = Payment_PENDING

Settled(pk) ==
    /\ pk \in DOMAIN db
    /\ db[pk].state \in {Payment_ACCEPTED, Payment_REJECTED}

\* C39: when callbacks are delivered and the collaborators do not fail,
\* every Payment that was initiated (is stored PENDING) eventually is
\* ACCEPTED or REJECTED, and an initiate or complete that was invoked
\* ends: the request that made the call gets its response.
C39_InitiatedIsSettled ==
    /\ \A pk \in 1..MaxPayments : Initiated(pk) ~> Settled(pk)
    /\ \A r \in Requests :
          (req[r].pc \in {"backend", "locked", "initiated"}) ~>
             (req[r].pc = "done")

\* C39, the calls alone: an initiate or complete that was invoked ends.
C39_CallsEnd ==
    \A r \in Requests :
        (req[r].pc \in {"backend", "locked", "initiated"}) ~>
           (req[r].pc = "done")

\* C39 for a Payment whose backend field names a backend that
\* get_backend hands out: once initiated it eventually is ACCEPTED or
\* REJECTED.
C39_ResolvableIsSettled ==
    \A pk \in 1..MaxPayments :
        (Initiated(pk) /\ ~get_backend_KeyError(db[pk].backend, settings)) ~>
           Settled(pk)

====
